---------------------------- MODULE Spec2Model ----------------------------
(***************************************************************************)
(* Simulated annealing for the vehicle routing problem with time windows   *)
(* (src/simulated_annealing.ipynb): the instance generator, the            *)
(* feasibility evaluator is_feasible, the cost evaluator calculate_cost,   *)
(* the move generate_new_solution and the loop simulated_annealing.        *)
(*                                                                         *)
(* Python lists are modelled as sequences; a Python index p of a list is   *)
(* index p + 1 of the sequence.  A Python dict is a function whose DOMAIN  *)
(* is the set of its keys, so a lookup with a missing key (KeyError) is    *)
(* visible as a key outside the DOMAIN.                                    *)
(*                                                                         *)
(* Specifications: Spec (one call of simulated_annealing), SpecFair (the   *)
(* same, run to its end), SpecTwin (two calls on one heap of list objects, *)
(* the second on the draws of the first), SpecGen (a call of               *)
(* generate_vrptw_parameters), SpecEval (direct calls of is_feasible,      *)
(* calculate_cost and generate_new_solution).                              *)
(***************************************************************************)
EXTENDS Integers, Sequences, FiniteSets, TLC

VARIABLES
    inst,            \* the instance passed to the functions (cij, tij, a, b, q, di)
    initial_routes,  \* argument initial_routes of simulated_annealing
    current_routes,  \* local current_routes of simulated_annealing
    best_routes,     \* local best_routes of simulated_annealing
    best_cost,       \* local best_cost of simulated_annealing
    temperature,     \* local temperature, in units of 1 / TempScale
    pc,              \* position of the caller / of simulated_annealing
    routes,          \* argument routes of a direct call of an evaluator or of the move
    feasible_ret,    \* what is_feasible(routes, ...) returned or raised
    cost_ret,        \* what calculate_cost(..., routes) returned or raised
    move_ret,        \* what generate_new_solution(routes) returned or raised
    edits,           \* how many edits the caller made to routes before the call
    heap,            \* the list objects of the interpreter: identity |-> items
    names,           \* references held by feasible_routes and by a direct call of the move
    run,             \* the locals of two calls of simulated_annealing, as references
    stream,          \* the draws the first call has consumed and the second has not
    gen_args,        \* the arguments of a call of generate_vrptw_parameters
    gen_ret          \* what that call returned or raised

vars == <<inst, initial_routes, current_routes, best_routes, best_cost,
          temperature, pc, routes, feasible_ret, cost_ret, move_ret, edits,
          heap, names, run, stream, gen_args, gen_ret>>

Max(x, y) == IF x >= y THEN x ELSE y

(***************************************************************************)
(* generate_vrptw_parameters.  The random draws are parameters: cost_draw  *)
(* and time_draw are matrices (row i + 1, column j + 1), demand_draw,      *)
(* a_draw and b_draw are sequences (entry i + 1 for node i, entry i for    *)
(* customer i of demand_draw).                                             *)
(***************************************************************************)
\* generate_vrptw_parameters without the two assignments that fix the windows
\* of the depots
generate_vrptw_parameters_drawn_depots(num_vehicles, num_customers, capacity, tw_hi, cost_draw, time_draw, demand_draw, a_draw, b_draw) ==
    LET V == 1 .. num_vehicles
        N == 0 .. (num_customers + 1)
        C == 1 .. num_customers
        keys == {k \in N \X N : k[1] # k[2]}
    IN  [ V   |-> V,
          N   |-> N,
          C   |-> C,
          cij |-> [k \in keys |-> cost_draw[k[1] + 1][k[2] + 1]],
          tij |-> [k \in keys |-> time_draw[k[1] + 1][k[2] + 1]],
          di  |-> [i \in C |-> demand_draw[i]],
          q   |-> capacity,
          a   |-> [i \in N |-> a_draw[i + 1]],
          b   |-> [i \in N |-> b_draw[i + 1]] ]

generate_vrptw_parameters(num_vehicles, num_customers, capacity, tw_hi, cost_draw, time_draw, demand_draw, a_draw, b_draw) ==
    LET V == 1 .. num_vehicles
        N == 0 .. (num_customers + 1)
        C == 1 .. num_customers
        keys == {k \in N \X N : k[1] # k[2]}
    IN  [ V   |-> V,
          N   |-> N,
          C   |-> C,
          cij |-> [k \in keys |-> cost_draw[k[1] + 1][k[2] + 1]],
          tij |-> [k \in keys |-> time_draw[k[1] + 1][k[2] + 1]],
          di  |-> [i \in C |-> demand_draw[i]],
          q   |-> capacity,
          a   |-> [i \in N |-> IF i = 0 \/ i = num_customers + 1
                               THEN 0 ELSE a_draw[i + 1]],
          b   |-> [i \in N |-> IF i = 0 \/ i = num_customers + 1
                               THEN tw_hi ELSE b_draw[i + 1]] ]

\* The instance the notebook generates with seed 30 (its printed parameters).
RefCostDraw ==
    << << 0, 44, 28, 49, 11>>,
       <<49,  0, 23, 26, 13>>,
       <<35, 34,  0, 18, 15>>,
       <<39, 10, 43,  0, 25>>,
       <<11, 14, 20, 48,  0>> >>

RefTimeDraw ==
    << << 0, 21, 17, 25, 16>>,
       <<22,  0,  7, 17,  5>>,
       <<12, 30,  0, 23, 26>>,
       <<13, 29, 18,  0, 23>>,
       << 8, 26, 13, 25,  0>> >>

parameters ==
    generate_vrptw_parameters(2, 3, 20, 100, RefCostDraw, RefTimeDraw,
                              <<13, 6, 14>>,
                              <<0, 39, 16, 39, 0>>, <<100, 72, 27, 48, 100>>)

\* The same draws of cost, time and demand with capacity = 40 and every
\* time window drawn as [0, 100]: no route over three customers violates a
\* hard constraint.
RelaxedParameters ==
    generate_vrptw_parameters(2, 3, 40, 100, RefCostDraw, RefTimeDraw,
                              <<13, 6, 14>>,
                              <<0, 0, 0, 0, 0>>, <<100, 100, 100, 100, 100>>)

\* The reference draws with the window of customer 3 drawn as [39, 40]: the
\* route 0, 2, 3 reaches customer 3 at max(17 + 23, 39) = 40, the instant the
\* window closes.
BoundaryParameters ==
    generate_vrptw_parameters(2, 3, 20, 100, RefCostDraw, RefTimeDraw,
                              <<13, 6, 14>>,
                              <<0, 39, 16, 39, 0>>, <<100, 72, 27, 40, 100>>)

\* A call with num_customers = 4: costs in 10..50, times in 5..30, demands in
\* 5..15, every window drawn as [0, 100].
FourCostDraw == [r \in 1 .. 6 |-> [c \in 1 .. 6 |-> 10 + ((7 * (r - 1) + 3 * (c - 1)) % 41)]]

FourTimeDraw == [r \in 1 .. 6 |-> [c \in 1 .. 6 |-> 5 + ((3 * (r - 1) + 5 * (c - 1)) % 26)]]

FourParameters ==
    generate_vrptw_parameters(2, 4, 20, 100, FourCostDraw, FourTimeDraw,
                              <<15, 6, 5, 5>>,
                              <<0, 0, 0, 0, 0, 0>>,
                              <<100, 100, 100, 100, 100, 100>>)

\* The notebook's solutions for testing.
exact_routes == << <<0, 1, 4>>, <<0, 2, 3, 4>> >>

infeasible_routes == << <<0, 1, 4>>, <<0, 2, 3>> >>

feasible_routes == << <<0, 3, 4>>, <<0, 2, 1, 4>> >>

(***************************************************************************)
(* is_feasible.  The result is "True", "False", or the exception raised.   *)
(***************************************************************************)
\* len(b) - 1, the index the code takes for the return depot
LastNode(p) == Cardinality(DOMAIN p.b) - 1

customers_visited(rs, p) ==
    UNION {{rs[k][x] : x \in DOMAIN rs[k]} : k \in DOMAIN rs} \ {0, LastNode(p)}

\* is_feasible_walk with `arrival_time >= b[j]` as the window test
RECURSIVE is_feasible_walk_closed_at_end(_, _, _, _, _)
is_feasible_walk_closed_at_end(p, route, idx, load, arrival_time) ==
    IF idx >= Len(route) - 1 THEN "ok"
    ELSE LET i == route[idx + 1]
             j == route[idx + 2]
             load2 == IF j \in DOMAIN p.di THEN load + p.di[j] ELSE load
         IN  IF load2 > p.q THEN "False"
             ELSE IF <<i, j>> \notin DOMAIN p.tij THEN "KeyError"
             ELSE LET arr == Max(arrival_time + p.tij[<<i, j>>], p.a[j])
                  IN  IF arr >= p.b[j] THEN "False"
                      ELSE is_feasible_walk_closed_at_end(p, route, idx + 1, load2, arr)

\* for idx in range(len(route) - 1): capacity, then time window
RECURSIVE is_feasible_walk(_, _, _, _, _)
is_feasible_walk(p, route, idx, load, arrival_time) ==
    IF idx >= Len(route) - 1 THEN "ok"
    ELSE LET i == route[idx + 1]
             j == route[idx + 2]
             load2 == IF j \in DOMAIN p.di THEN load + p.di[j] ELSE load
         IN  IF load2 > p.q THEN "False"
             ELSE IF <<i, j>> \notin DOMAIN p.tij THEN "KeyError"
             ELSE LET arr == Max(arrival_time + p.tij[<<i, j>>], p.a[j])
                  IN  IF arr > p.b[j] THEN "False"
                      ELSE is_feasible_walk(p, route, idx + 1, load2, arr)

\* demand of the customers at positions 2 .. x of a route
RECURSIVE served_demand(_, _, _)
served_demand(route, x, p) ==
    IF x <= 1 THEN 0
    ELSE served_demand(route, x - 1, p)
         + (IF route[x] \in DOMAIN p.di THEN p.di[route[x]] ELSE 0)

\* demand served on the routes before route k
RECURSIVE demand_before(_, _, _)
demand_before(rs, k, p) ==
    IF k <= 1 THEN 0
    ELSE demand_before(rs, k - 1, p) + served_demand(rs[k - 1], Len(rs[k - 1]), p)

\* is_feasible_routes with `load = 0` moved out of the loop over the routes:
\* a route starts with the demand served on the routes before it.
RECURSIVE is_feasible_routes_shared_load(_, _, _)
is_feasible_routes_shared_load(p, rs, k) ==
    IF k > Len(rs) THEN "True"
    ELSE LET route == rs[k]
             w == is_feasible_walk(p, route, 0, demand_before(rs, k, p), 0)
         IN  IF w # "ok" THEN w
             ELSE IF Len(route) = 0 THEN "IndexError"
             ELSE IF route[1] # 0 \/ route[Len(route)] # LastNode(p) THEN "False"
             ELSE is_feasible_routes_shared_load(p, rs, k + 1)

\* for k, route in enumerate(routes): the walk, then the endpoints of the route
RECURSIVE is_feasible_routes(_, _, _)
is_feasible_routes(p, rs, k) ==
    IF k > Len(rs) THEN "True"
    ELSE LET route == rs[k]
             w == is_feasible_walk(p, route, 0, 0, 0)
         IN  IF w # "ok" THEN w
             ELSE IF Len(route) = 0 THEN "IndexError"
             ELSE IF route[1] # 0 \/ route[Len(route)] # LastNode(p) THEN "False"
             ELSE is_feasible_routes(p, rs, k + 1)

is_feasible(rs, p) ==
    IF Cardinality(customers_visited(rs, p)) # Cardinality(DOMAIN p.di)
    THEN "False"
    ELSE is_feasible_routes(p, rs, 1)

(***************************************************************************)
(* calculate_cost.  The result is a number, float('inf') or an exception.  *)
(* The arc ledger x is written (x[k, i, j] = 1) and never read, so it is   *)
(* left out.  No coverage or endpoint test is made here.                   *)
(***************************************************************************)
Num(v) == [kind |-> "num", v |-> v]

Inf == [kind |-> "inf", v |-> 0]

Raised(e) == [kind |-> e, v |-> 0]

\* calculate_cost_walk without the test load > q
RECURSIVE calculate_cost_walk_no_capacity(_, _, _, _, _, _)
calculate_cost_walk_no_capacity(p, route, idx, load, arrival_time, total_cost) ==
    IF idx >= Len(route) - 1 THEN Num(total_cost)
    ELSE LET i == route[idx + 1]
             j == route[idx + 2]
         IN  IF <<i, j>> \notin DOMAIN p.cij THEN Raised("KeyError")
             ELSE IF <<i, j>> \notin DOMAIN p.tij THEN Raised("KeyError")
             ELSE LET total2 == total_cost + p.cij[<<i, j>>]
                      arr == Max(arrival_time + p.tij[<<i, j>>], p.a[j])
                      load2 == IF j \in DOMAIN p.di THEN load + p.di[j] ELSE load
                  IN  IF arr > p.b[j] THEN Inf
                      ELSE calculate_cost_walk_no_capacity(p, route, idx + 1, load2, arr, total2)

\* for idx in range(len(route) - 1): cost, then time window, then capacity
RECURSIVE calculate_cost_walk(_, _, _, _, _, _)
calculate_cost_walk(p, route, idx, load, arrival_time, total_cost) ==
    IF idx >= Len(route) - 1 THEN Num(total_cost)
    ELSE LET i == route[idx + 1]
             j == route[idx + 2]
         IN  IF <<i, j>> \notin DOMAIN p.cij THEN Raised("KeyError")
             ELSE IF <<i, j>> \notin DOMAIN p.tij THEN Raised("KeyError")
             ELSE LET total2 == total_cost + p.cij[<<i, j>>]
                      arr == Max(arrival_time + p.tij[<<i, j>>], p.a[j])
                      load2 == IF j \in DOMAIN p.di THEN load + p.di[j] ELSE load
                  IN  IF arr > p.b[j] THEN Inf
                      ELSE IF load2 > p.q THEN Inf
                      ELSE calculate_cost_walk(p, route, idx + 1, load2, arr, total2)

\* for k, route in enumerate(routes), total_cost carried from route to route
RECURSIVE calculate_cost_routes(_, _, _, _)
calculate_cost_routes(p, rs, k, total_cost) ==
    IF k > Len(rs) THEN Num(total_cost)
    ELSE LET w == calculate_cost_walk(p, rs[k], 0, 0, 0, total_cost)
         IN  IF w.kind # "num" THEN w
             ELSE calculate_cost_routes(p, rs, k + 1, w.v)

\* calculate_cost with the first route left out of the enumeration
calculate_cost_skip_first(p, rs) == calculate_cost_routes(p, rs, 2, 0)

calculate_cost(p, rs) == calculate_cost_routes(p, rs, 1, 0)


(***************************************************************************)
(* generate_new_solution.  d is the tuple of its random draws              *)
(* <<vehicle1, vehicle2, i, j>>, or <<>> when random.sample has fewer than *)
(* two routes to draw from and raises ValueError.  An i or j of 0 stands   *)
(* for the randint(1, len - 2) that has no value to draw and raises.       *)
(***************************************************************************)
\* random.sample(range(m), 2): ordered pairs of distinct indices
Sample2(m) == {s \in (0 .. (m - 1)) \X (0 .. (m - 1)) : s[1] # s[2]}

\* random.randint(lo, hi); the empty set is the ValueError of an empty range
RandInt(lo, hi) == lo .. hi

PositionDraws(route) ==
    IF RandInt(1, Len(route) - 2) = {} THEN {0} ELSE RandInt(1, Len(route) - 2)

MoveDraws(rs) ==
    IF Sample2(Len(rs)) = {} THEN {<<>>}
    ELSE UNION {{<<s[1], s[2], ij[1], ij[2]>> :
                    ij \in PositionDraws(rs[s[1] + 1]) \X PositionDraws(rs[s[2] + 1])} :
                s \in Sample2(Len(rs))}

MoveOk(rs) == [exc |-> "none", routes |-> rs]

MoveRaised(e) == [exc |-> e, routes |-> <<>>]

\* generate_new_solution with the swap replaced by the single assignment
\* new_routes[vehicle1][i] = new_routes[vehicle2][j]
generate_new_solution_overwrite(rs, d) ==
    IF d = <<>> THEN MoveRaised("ValueError")
    ELSE LET vehicle1 == d[1] + 1
             vehicle2 == d[2] + 1
             i == d[3]
             j == d[4]
             new_routes == rs
         IN  IF new_routes[vehicle1] # <<>> /\ new_routes[vehicle2] # <<>>
             THEN IF i \notin RandInt(1, Len(new_routes[vehicle1]) - 2)
                     \/ j \notin RandInt(1, Len(new_routes[vehicle2]) - 2)
                  THEN MoveRaised("ValueError")
                  ELSE MoveOk([new_routes EXCEPT
                                 ![vehicle1][i + 1] = new_routes[vehicle2][j + 1]])
             ELSE MoveOk(new_routes)

generate_new_solution(rs, d) ==
    IF d = <<>> THEN MoveRaised("ValueError")
    ELSE LET vehicle1 == d[1] + 1
             vehicle2 == d[2] + 1
             i == d[3]
             j == d[4]
             new_routes == rs
         IN  IF new_routes[vehicle1] # <<>> /\ new_routes[vehicle2] # <<>>
             THEN IF i \notin RandInt(1, Len(new_routes[vehicle1]) - 2)
                     \/ j \notin RandInt(1, Len(new_routes[vehicle2]) - 2)
                  THEN MoveRaised("ValueError")
                  ELSE MoveOk([new_routes EXCEPT
                                 ![vehicle1][i + 1] = new_routes[vehicle2][j + 1],
                                 ![vehicle2][j + 1] = new_routes[vehicle1][i + 1]])
             ELSE MoveOk(new_routes)

(***************************************************************************)
(* generate_new_solution on list objects.  A solution is a reference to a  *)
(* list of references to lists of nodes; heap maps each reference to the   *)
(* items of its list, and 0 refers to no list.                             *)
(***************************************************************************)
\* the objects of a solution written as a literal: the routes, then the list
\* of them
Objects(rs) ==
    [id \in 1 .. Len(rs) + 1 |->
        IF id <= Len(rs) THEN rs[id] ELSE [x \in 1 .. Len(rs) |-> x]]

RootOf(rs) == Len(rs) + 1

\* the solution a reference stands for
Deref(h, r) == [x \in 1 .. Len(h[r]) |-> h[h[r][x]]]

\* the lists of the solution r: the list of routes and the routes
Reach(h, r) == {r} \cup {h[r][x] : x \in 1 .. Len(h[r])}

\* the references of k lists created now: none of them is a list that exists
RECURSIVE FreshFrom(_, _, _)
FreshFrom(h, k, c) ==
    IF k = 0 THEN <<>>
    ELSE IF c \in DOMAIN h THEN FreshFrom(h, k, c + 1)
    ELSE <<c>> \o FreshFrom(h, k - 1, c + 1)

Fresh(h, k) == FreshFrom(h, k, 1)

Extend(h, g) == [id \in DOMAIN h \cup DOMAIN g |-> IF id \in DOMAIN g THEN g[id] ELSE h[id]]

\* lists no name reaches are freed
Collect(h, roots) ==
    LET live == UNION {Reach(h, r) : r \in roots \ {0}}
    IN  [id \in live |-> h[id]]

RefOk(h, r) == [exc |-> "none", heap |-> h, ret |-> r]

RefRaised(h, e) == [exc |-> e, heap |-> h, ret |-> 0]

\* new_routes = routes[:] : a new list of the same route objects
generate_new_solution_ref_shallow(h, r, d) ==
    LET new_routes == Fresh(h, 1)[1]
        hc == Extend(h, [id \in {new_routes} |-> h[r]])
    IN  IF d = <<>> THEN RefRaised(hc, "ValueError")
        ELSE LET vehicle1 == hc[new_routes][d[1] + 1]
                 vehicle2 == hc[new_routes][d[2] + 1]
                 i == d[3]
                 j == d[4]
             IN  IF hc[vehicle1] # <<>> /\ hc[vehicle2] # <<>>
                 THEN IF i \notin RandInt(1, Len(hc[vehicle1]) - 2)
                         \/ j \notin RandInt(1, Len(hc[vehicle2]) - 2)
                      THEN RefRaised(hc, "ValueError")
                      ELSE RefOk([hc EXCEPT ![vehicle1][i + 1] = hc[vehicle2][j + 1],
                                            ![vehicle2][j + 1] = hc[vehicle1][i + 1]],
                                 new_routes)
                 ELSE RefOk(hc, new_routes)

\* new_routes = [route[:] for route in routes] : a new list of a new copy of
\* every route; the swap writes into two of the copies
generate_new_solution_ref(h, r, d) ==
    LET n == Len(h[r])
        f == Fresh(h, n + 1)
        new_routes == f[n + 1]
        hc == Extend(h, [id \in {f[x] : x \in 1 .. n + 1} |->
                            IF id = new_routes THEN SubSeq(f, 1, n)
                            ELSE h[h[r][CHOOSE x \in 1 .. n : f[x] = id]]])
    IN  IF d = <<>> THEN RefRaised(hc, "ValueError")
        ELSE LET vehicle1 == hc[new_routes][d[1] + 1]
                 vehicle2 == hc[new_routes][d[2] + 1]
                 i == d[3]
                 j == d[4]
             IN  IF hc[vehicle1] # <<>> /\ hc[vehicle2] # <<>>
                 THEN IF i \notin RandInt(1, Len(hc[vehicle1]) - 2)
                         \/ j \notin RandInt(1, Len(hc[vehicle2]) - 2)
                      THEN RefRaised(hc, "ValueError")
                      ELSE RefOk([hc EXCEPT ![vehicle1][i + 1] = hc[vehicle2][j + 1],
                                            ![vehicle2][j + 1] = hc[vehicle1][i + 1]],
                                 new_routes)
                 ELSE RefOk(hc, new_routes)

(***************************************************************************)
(* simulated_annealing.                                                    *)
(***************************************************************************)
\* temperature is kept in units of 1 / TempScale, rounded to the nearest unit
TempScale == 10000

initial_temperature == 1000

\* cooling_rate = 0.99, in percent
cooling_rate == 99

cool(t) == (t * cooling_rate + 50) \div 100

\* the comparison turned around: x > y
Lt_turned(x, y) ==
    IF y.kind = "inf" THEN FALSE
    ELSE IF x.kind = "inf" THEN TRUE
    ELSE y.v < x.v

\* Python's x < y on costs that are numbers or float('inf')
Lt(x, y) ==
    IF x.kind = "inf" THEN FALSE
    ELSE IF y.kind = "inf" THEN TRUE
    ELSE x.v < y.v

\* random.uniform(0, 1) < math.exp((best_cost - cost) / temperature), evaluated
\* only when cost < best_cost is false.  inf - inf is nan and no number is
\* below nan; exp(-inf) is 0.0 and no draw is below 0; exp(0) is 1.0 and every
\* draw of [0, 1) is below it; otherwise the threshold lies strictly between 0
\* and 1 (temperature is in (1, 1000] and the costs differ by an integer
\* below 745) and the draw u is "low" when it is below the threshold and
\* "high" when it is not.
UniformDraws == {"low", "high"}

uniform_lt_exp(u, bcost, cost) ==
    IF bcost.kind = "inf" \/ cost.kind = "inf" THEN FALSE
    ELSE IF bcost.v - cost.v = 0 THEN TRUE
    ELSE u = "low"

\* accept_or_reject with best_cost overwritten on every acceptance
accept_or_reject_always_best(cur, best, bcost, new_routes, cost, u) ==
    IF Lt(cost, bcost) \/ uniform_lt_exp(u, bcost, cost)
    THEN [current_routes |-> new_routes, best_routes |-> new_routes, best_cost |-> cost]
    ELSE [current_routes |-> cur, best_routes |-> best, best_cost |-> bcost]

\* accept_or_reject without the assignment best_routes = current_routes
accept_or_reject_cost_only(cur, best, bcost, new_routes, cost, u) ==
    IF Lt(cost, bcost) \/ uniform_lt_exp(u, bcost, cost)
    THEN IF Lt(cost, bcost)
         THEN [current_routes |-> new_routes, best_routes |-> best, best_cost |-> cost]
         ELSE [current_routes |-> new_routes, best_routes |-> best, best_cost |-> bcost]
    ELSE [current_routes |-> cur, best_routes |-> best, best_cost |-> bcost]

\* the body of the loop after the candidate is costed: accept or reject
accept_or_reject(cur, best, bcost, new_routes, cost, u) ==
    IF Lt(cost, bcost) \/ uniform_lt_exp(u, bcost, cost)
    THEN IF Lt(cost, bcost)
         THEN [current_routes |-> new_routes, best_routes |-> new_routes, best_cost |-> cost]
         ELSE [current_routes |-> new_routes, best_routes |-> best, best_cost |-> bcost]
    ELSE [current_routes |-> cur, best_routes |-> best, best_cost |-> bcost]

NoCost == [kind |-> "none", v |-> 0]

NoMove == [exc |-> "unset", routes |-> <<>>]

NoNames == [feasible_routes |-> 0, routes |-> 0, new_routes |-> 0]

NoArgs == [num_vehicles |-> 0, num_customers |-> 0, capacity |-> 0,
           time_window_range |-> <<0, 0>>]

NoInstance == [kind |-> "none"]

GenIdle == gen_args = NoArgs /\ gen_ret = NoInstance

RefIdle ==
    /\ heap = <<>>
    /\ names = NoNames
    /\ run = <<>>
    /\ stream = <<>>

EvalIdle ==
    /\ routes = <<>>
    /\ feasible_ret = "none"
    /\ cost_ret = NoCost
    /\ move_ret = NoMove
    /\ edits = 0

\* the instances simulated_annealing is called on, and the seeds passed
Instances == {parameters, FourParameters}

Seeds(p) ==
    IF Cardinality(p.C) = 3
    THEN {exact_routes, infeasible_routes, feasible_routes,
          << <<0, 1, 4>>, <<0, 2, 4>> >>}
    ELSE {<< <<0, 1, 5>>, <<0, 2, 3, 4, 5>> >>}

Init ==
    /\ inst \in Instances
    /\ initial_routes \in Seeds(inst)
    /\ current_routes = <<>>
    /\ best_routes = <<>>
    /\ best_cost = NoCost
    /\ temperature = 0
    /\ pc = "call"
    /\ EvalIdle
    /\ RefIdle
    /\ GenIdle

\* lines 507-513: the initialisation before the loop
Enter ==
    /\ pc = "call"
    /\ current_routes' = feasible_routes
    /\ best_routes' = current_routes'
    /\ best_cost' = calculate_cost(inst, best_routes')
    /\ temperature' = initial_temperature * TempScale
    /\ pc' = IF best_cost'.kind \in {"num", "inf"} THEN "loop" ELSE "raised"
    /\ UNCHANGED <<gen_args, gen_ret, heap, names, run, stream,
                   inst, initial_routes, routes, feasible_ret, cost_ret, move_ret, edits>>

\* Iterate with `temperature *= cooling_rate` inside the acceptance branch
Iterate_cool_on_accept(d, u) ==
    /\ pc = "loop"
    /\ temperature > 1 * TempScale
    /\ LET m == generate_new_solution(current_routes, d)
           cost == IF m.exc = "none" THEN calculate_cost(inst, m.routes)
                   ELSE Raised(m.exc)
       IN  IF cost.kind \in {"num", "inf"}
           THEN LET r == accept_or_reject(current_routes, best_routes, best_cost,
                                          m.routes, cost, u)
                IN  /\ current_routes' = r.current_routes
                    /\ best_routes' = r.best_routes
                    /\ best_cost' = r.best_cost
                    /\ temperature' = IF Lt(cost, best_cost) \/ uniform_lt_exp(u, best_cost, cost)
                                      THEN cool(temperature)
                                      ELSE temperature
                    /\ pc' = "loop"
           ELSE /\ pc' = "raised"
                /\ UNCHANGED <<current_routes, best_routes, best_cost, temperature>>
    /\ UNCHANGED <<gen_args, gen_ret, heap, names, run, stream,
                   inst, initial_routes, routes, feasible_ret, cost_ret, move_ret, edits>>

\* one iteration of while temperature > 1
Iterate(d, u) ==
    /\ pc = "loop"
    /\ temperature > 1 * TempScale
    /\ LET m == generate_new_solution(current_routes, d)
           cost == IF m.exc = "none" THEN calculate_cost(inst, m.routes)
                   ELSE Raised(m.exc)
       IN  IF cost.kind \in {"num", "inf"}
           THEN LET r == accept_or_reject(current_routes, best_routes, best_cost,
                                          m.routes, cost, u)
                IN  /\ current_routes' = r.current_routes
                    /\ best_routes' = r.best_routes
                    /\ best_cost' = r.best_cost
                    /\ temperature' = cool(temperature)
                    /\ pc' = "loop"
           ELSE /\ pc' = "raised"
                /\ UNCHANGED <<current_routes, best_routes, best_cost, temperature>>
    /\ UNCHANGED <<gen_args, gen_ret, heap, names, run, stream,
                   inst, initial_routes, routes, feasible_ret, cost_ret, move_ret, edits>>

\* the loop exits and the function returns best_routes, best_cost
Return ==
    /\ pc = "loop"
    /\ ~(temperature > 1 * TempScale)
    /\ pc' = "returned"
    /\ UNCHANGED <<gen_args, gen_ret, heap, names, run, stream,
                   inst, initial_routes, current_routes, best_routes, best_cost,
                   temperature, routes, feasible_ret, cost_ret, move_ret, edits>>

Next ==
    \/ Enter
    \/ \E d \in MoveDraws(current_routes), u \in UniformDraws : Iterate(d, u)
    \/ Return

Spec == Init /\ [][Next]_vars

\* The interpreter runs the call to its end: a statement that can execute
\* does execute.
SpecFair == Spec /\ WF_vars(Next)

(***************************************************************************)
(* Two calls of simulated_annealing in one interpreter, on the same        *)
(* instance and seed, the second reading the draws the first has read.     *)
(* Their locals are references into the one heap, which also holds the     *)
(* list the global feasible_routes names.                                  *)
(***************************************************************************)
Runs == 1 .. 2

CallFrame ==
    [pc |-> "call", current_routes |-> 0, best_routes |-> 0,
     best_cost |-> NoCost, temperature |-> 0]

\* lists that some name of the notebook or of a call refers to
Roots(nm, rn) ==
    {nm.feasible_routes, nm.routes, nm.new_routes}
        \cup {rn[r].current_routes : r \in DOMAIN rn}
        \cup {rn[r].best_routes : r \in DOMAIN rn}

InitTwin ==
    /\ inst \in Instances
    /\ initial_routes \in Seeds(inst)
    /\ current_routes = <<>>
    /\ best_routes = <<>>
    /\ best_cost = NoCost
    /\ temperature = 0
    /\ pc = "twin"
    /\ EvalIdle
    /\ heap = Objects(feasible_routes)
    /\ names = [NoNames EXCEPT !.feasible_routes = RootOf(feasible_routes)]
    /\ run = [r \in Runs |-> CallFrame]
    /\ stream = <<>>
    /\ GenIdle

\* lines 507-513 on references: current_routes and best_routes name the list
\* that feasible_routes names
enter_ref(h, nm) ==
    LET cost == calculate_cost(inst, Deref(h, nm.feasible_routes))
    IN  [pc |-> IF cost.kind \in {"num", "inf"} THEN "loop" ELSE "raised",
         current_routes |-> nm.feasible_routes,
         best_routes |-> nm.feasible_routes,
         best_cost |-> cost,
         temperature |-> initial_temperature * TempScale]

\* lines 516-530 on references: the candidate is a new solution object, and
\* accepting it binds current_routes (and best_routes) to that object
iterate_ref(h, f, d, u) ==
    LET m == generate_new_solution_ref(h, f.current_routes, d)
        cost == IF m.exc = "none" THEN calculate_cost(inst, Deref(m.heap, m.ret))
                ELSE Raised(m.exc)
    IN  IF cost.kind \in {"num", "inf"}
        THEN LET r == accept_or_reject(f.current_routes, f.best_routes, f.best_cost,
                                       m.ret, cost, u)
             IN  [heap |-> m.heap,
                  frame |-> [pc |-> "loop",
                             current_routes |-> r.current_routes,
                             best_routes |-> r.best_routes,
                             best_cost |-> r.best_cost,
                             temperature |-> cool(f.temperature)]]
        ELSE [heap |-> m.heap, frame |-> [f EXCEPT !.pc = "raised"]]

TwinFrame ==
    UNCHANGED <<gen_args, gen_ret,
                inst, initial_routes, current_routes, best_routes, best_cost,
                temperature, pc, routes, feasible_ret, cost_ret, move_ret, edits, names>>

EnterRef(r) ==
    /\ pc = "twin"
    /\ run[r].pc = "call"
    /\ r = 1 \/ run[1].pc # "call"
    /\ run' = [run EXCEPT ![r] = enter_ref(heap, names)]
    /\ UNCHANGED <<heap, stream>>
    /\ TwinFrame

\* an iteration of the first call; its draws stay in the stream for the second
IterateFirst(d, u) ==
    /\ pc = "twin"
    /\ stream = <<>>
    /\ run[1].pc = "loop"
    /\ run[2].pc = "loop"
    /\ run[1].temperature > 1 * TempScale
    /\ LET it == iterate_ref(heap, run[1], d, u)
       IN  /\ run' = [run EXCEPT ![1] = it.frame]
           /\ heap' = Collect(it.heap, Roots(names, run'))
    /\ stream' = <<d, u>>
    /\ TwinFrame

\* the same iteration of the second call, on the draws of the first
IterateSecond ==
    /\ pc = "twin"
    /\ stream # <<>>
    /\ run[2].pc = "loop"
    /\ run[2].temperature > 1 * TempScale
    /\ LET it == iterate_ref(heap, run[2], stream[1], stream[2])
       IN  /\ run' = [run EXCEPT ![2] = it.frame]
           /\ heap' = Collect(it.heap, Roots(names, run'))
    /\ stream' = <<>>
    /\ TwinFrame

ReturnRef(r) ==
    /\ pc = "twin"
    /\ stream = <<>>
    /\ run[r].pc = "loop"
    /\ ~(run[r].temperature > 1 * TempScale)
    /\ run' = [run EXCEPT ![r].pc = "returned"]
    /\ UNCHANGED <<heap, stream>>
    /\ TwinFrame

NextTwin ==
    \/ \E r \in Runs : EnterRef(r)
    \/ /\ run[1].pc = "loop"
       /\ \E d \in MoveDraws(Deref(heap, run[1].current_routes)), u \in UniformDraws :
              IterateFirst(d, u)
    \/ IterateSecond
    \/ \E r \in Runs : ReturnRef(r)

SpecTwin == InitTwin /\ [][NextTwin]_vars

(***************************************************************************)
(* Calls of generate_vrptw_parameters.  The arguments and the draws of     *)
(* random.randint come from small sets; the cost and time draws are taken  *)
(* from the tables above.                                                  *)
(***************************************************************************)
MaxGenCustomers == 2

FleetSizes == {0, 1, 2}

Capacities == {-5, 0, 20}

\* time_window_range = (lo, hi)
WindowRanges == {<<0, 1>>, <<0, 2>>, <<1, 2>>, <<1, 3>>}

DrawTables == {<<RefCostDraw, RefTimeDraw>>, <<FourCostDraw, FourTimeDraw>>}

\* demand_range = (5, 15)
DemandDraws == {5, 15}

Returned(p) == [kind |-> "instance", value |-> p]

\* {i: random.randint(a[i] + 1, time_window_range[1]) for i in N}; the draw
\* for node i is at index i + 1
WindowEndDraws(a_draw, hi) ==
    {b_draw \in [DOMAIN a_draw -> 0 .. hi] :
        \A x \in DOMAIN a_draw : b_draw[x] \in RandInt(a_draw[x] + 1, hi)}

InitGen ==
    /\ pc = "gen"
    /\ gen_args = NoArgs
    /\ gen_ret = NoInstance
    /\ inst = NoInstance
    /\ initial_routes = <<>>
    /\ current_routes = <<>>
    /\ best_routes = <<>>
    /\ best_cost = NoCost
    /\ temperature = 0
    /\ EvalIdle
    /\ RefIdle

CallGenerate(args, tab, demand_draw, a_draw) ==
    /\ pc = "gen"
    /\ gen_ret = NoInstance
    /\ gen_args' = args
    /\ IF \E x \in DOMAIN a_draw : RandInt(a_draw[x] + 1, args.time_window_range[2]) = {}
       THEN gen_ret' = [kind |-> "ValueError"]
       ELSE \E b_draw \in WindowEndDraws(a_draw, args.time_window_range[2]) :
                gen_ret' = Returned(generate_vrptw_parameters(
                                        args.num_vehicles, args.num_customers,
                                        args.capacity, args.time_window_range[2],
                                        tab[1], tab[2], demand_draw, a_draw, b_draw))
    /\ UNCHANGED <<heap, names, run, stream,
                   inst, initial_routes, current_routes, best_routes, best_cost,
                   temperature, pc, routes, feasible_ret, cost_ret, move_ret, edits>>

GenArgs ==
    [num_vehicles : FleetSizes, num_customers : 0 .. MaxGenCustomers,
     capacity : Capacities, time_window_range : WindowRanges]

NextGen ==
    /\ gen_ret = NoInstance
    /\ \E args \in GenArgs, tab \in DrawTables :
           \E demand_draw \in [1 .. args.num_customers -> DemandDraws],
              a_draw \in [1 .. args.num_customers + 2 ->
                             RandInt(args.time_window_range[1], args.time_window_range[2])] :
               CallGenerate(args, tab, demand_draw, a_draw)

SpecGen == InitGen /\ [][NextGen]_vars

(***************************************************************************)
(* Direct calls of is_feasible, calculate_cost and generate_new_solution,  *)
(* as in the notebook's sanity-check cells, on a bounded set of solutions: *)
(* every split of every order of the customers over two routes, changed   *)
(* by the caller in at most MaxEdits edits (a node replaced, inserted or   *)
(* deleted, a route removed).  Node num_customers + 2 is not a node of the *)
(* instance.                                                               *)
(***************************************************************************)
MaxEdits == 1

Perms(S) ==
    {s \in [1 .. Cardinality(S) -> S] :
        \A x, y \in DOMAIN s : x # y => s[x] # s[y]}

Arrangements(p) ==
    LET n == Cardinality(p.C)
    IN  {<< <<0>> \o SubSeq(s, 1, k) \o <<n + 1>>,
            <<0>> \o SubSeq(s, k + 1, n) \o <<n + 1>> >> :
            <<s, k>> \in Perms(p.C) \X (0 .. n)}

Positions(rs) == UNION {{<<k, x>> : x \in DOMAIN rs[k]} : k \in DOMAIN rs}

Gaps(rs) == UNION {{<<k, x>> : x \in 0 .. Len(rs[k])} : k \in DOMAIN rs}

Edits(rs, p) ==
    LET alphabet == 0 .. (Cardinality(p.C) + 2)
    IN  {[rs EXCEPT ![kx[1]][kx[2]] = v] : <<kx, v>> \in Positions(rs) \X alphabet}
        \cup {[rs EXCEPT ![kx[1]] = SubSeq(@, 1, kx[2]) \o <<v>>
                                       \o SubSeq(@, kx[2] + 1, Len(@))] :
                 <<kx, v>> \in Gaps(rs) \X alphabet}
        \cup {[rs EXCEPT ![kx[1]] = SubSeq(@, 1, kx[2] - 1)
                                       \o SubSeq(@, kx[2] + 1, Len(@))] :
                 kx \in Positions(rs)}
        \cup {SubSeq(rs, 1, k - 1) \o SubSeq(rs, k + 1, Len(rs)) : k \in DOMAIN rs}

EvalInstances == {parameters, RelaxedParameters, BoundaryParameters}

InitEval ==
    /\ inst \in EvalInstances
    /\ routes \in Arrangements(inst)
    /\ edits = 0
    /\ feasible_ret = "none"
    /\ cost_ret = NoCost
    /\ move_ret = NoMove
    /\ pc = "eval"
    /\ initial_routes = <<>>
    /\ current_routes = <<>>
    /\ best_routes = <<>>
    /\ best_cost = NoCost
    /\ temperature = 0
    /\ heap = Objects(routes)
    /\ names = [NoNames EXCEPT !.routes = RootOf(routes)]
    /\ run = <<>>
    /\ stream = <<>>
    /\ GenIdle

\* the caller changes the solution it is about to pass
Edit ==
    /\ pc = "eval"
    /\ edits < MaxEdits
    /\ feasible_ret = "none"
    /\ cost_ret = NoCost
    /\ move_ret = NoMove
    /\ routes' \in Edits(routes, inst)
    /\ edits' = edits + 1
    /\ heap' = Objects(routes')
    /\ names' = [NoNames EXCEPT !.routes = RootOf(routes')]
    /\ UNCHANGED <<gen_args, gen_ret, run, stream,
                   inst, initial_routes, current_routes, best_routes, best_cost,
                   temperature, pc, feasible_ret, cost_ret, move_ret>>

\* is_feasible(routes, tij, di, q, a, b, K)
CallIsFeasible ==
    /\ pc = "eval"
    /\ feasible_ret = "none"
    /\ move_ret = NoMove
    /\ feasible_ret' = is_feasible(routes, inst)
    /\ UNCHANGED <<gen_args, gen_ret, heap, names, run, stream,
                   inst, initial_routes, current_routes, best_routes, best_cost,
                   temperature, pc, routes, cost_ret, move_ret, edits>>

\* calculate_cost(x, cij, tij, a, b, q, di, routes)
CallCalculateCost ==
    /\ pc = "eval"
    /\ cost_ret = NoCost
    /\ move_ret = NoMove
    /\ cost_ret' = calculate_cost(inst, routes)
    /\ UNCHANGED <<gen_args, gen_ret, heap, names, run, stream,
                   inst, initial_routes, current_routes, best_routes, best_cost,
                   temperature, pc, routes, feasible_ret, move_ret, edits>>

\* generate_new_solution(routes) with the random draws d
CallGenerateNewSolution(d) ==
    /\ pc = "eval"
    /\ feasible_ret = "none"
    /\ cost_ret = NoCost
    /\ move_ret = NoMove
    /\ move_ret' = generate_new_solution(routes, d)
    /\ LET m == generate_new_solution_ref(heap, names.routes, d)
       IN  /\ names' = [names EXCEPT !.new_routes = m.ret]
           /\ heap' = Collect(m.heap, {names'.routes, names'.new_routes})
    /\ UNCHANGED <<gen_args, gen_ret, run, stream,
                   inst, initial_routes, current_routes, best_routes, best_cost,
                   temperature, pc, routes, feasible_ret, cost_ret, edits>>

NextEval ==
    \/ Edit
    \/ CallIsFeasible
    \/ CallCalculateCost
    \/ \E d \in MoveDraws(routes) : CallGenerateNewSolution(d)

SpecEval == InitEval /\ [][NextEval]_vars

(***************************************************************************)
(* What the properties below speak about, stated independently of the      *)
(* evaluators.                                                             *)
(***************************************************************************)
\* the return depot n + 1 of the instance
ReturnDepot(p) == Cardinality(p.C) + 1

Occurrences(rs, c) == Cardinality({kx \in Positions(rs) : rs[kx[1]][kx[2]] = c})

\* every customer is in exactly one route exactly once
CoversCustomers(rs, p) == \A c \in p.C : Occurrences(rs, c) = 1

\* the non-depot nodes visited are exactly the customers, once each
ExactCover(rs, p) ==
    /\ CoversCustomers(rs, p)
    /\ \A kx \in Positions(rs) : rs[kx[1]][kx[2]] \in p.C \cup {0, ReturnDepot(p)}

\* some non-empty route does not start at 0 or does not end at n + 1
BadEndpoint(rs, p) ==
    \E k \in DOMAIN rs :
        /\ Len(rs[k]) > 0
        /\ (rs[k][1] # 0 \/ rs[k][Len(rs[k])] # ReturnDepot(p))

EndpointsOk(rs, p) ==
    \A k \in DOMAIN rs :
        /\ Len(rs[k]) > 0
        /\ rs[k][1] = 0
        /\ rs[k][Len(rs[k])] = ReturnDepot(p)

\* every consecutive pair of every route is an arc of the instance
ArcsDefined(rs, p) ==
    \A kx \in Positions(rs) :
        kx[2] < Len(rs[kx[1]]) =>
            <<rs[kx[1]][kx[2]], rs[kx[1]][kx[2] + 1]>> \in p.N \X p.N
            /\ rs[kx[1]][kx[2]] # rs[kx[1]][kx[2] + 1]

\* demand served on a route up to and including position x
RECURSIVE LoadAt(_, _, _)
LoadAt(route, x, p) ==
    IF x <= 1 THEN 0
    ELSE LoadAt(route, x - 1, p) + (IF route[x] \in p.C THEN p.di[route[x]] ELSE 0)

\* arrival time at position x of a route that leaves its first node at 0
RECURSIVE ArrivalAt(_, _, _)
ArrivalAt(route, x, p) ==
    IF x <= 1 THEN 0
    ELSE Max(ArrivalAt(route, x - 1, p) + p.tij[<<route[x - 1], route[x]>>],
             p.a[route[x]])

\* no route exceeds the capacity or arrives after a window has closed
NoViolation(rs, p) ==
    \A kx \in Positions(rs) :
        kx[2] > 1 =>
            /\ LoadAt(rs[kx[1]], kx[2], p) <= p.q
            /\ ArrivalAt(rs[kx[1]], kx[2], p) <= p.b[rs[kx[1]][kx[2]]]

RECURSIVE RouteArcCost(_, _, _)
RouteArcCost(route, x, p) ==
    IF x <= 1 THEN 0
    ELSE RouteArcCost(route, x - 1, p) + p.cij[<<route[x - 1], route[x]>>]

RECURSIVE SumArcCost(_, _, _)
SumArcCost(rs, k, p) ==
    IF k = 0 THEN 0
    ELSE SumArcCost(rs, k - 1, p) + RouteArcCost(rs[k], Len(rs[k]), p)

Reverse(sq) == [x \in 1 .. Len(sq) |-> sq[Len(sq) + 1 - x]]

\* Python's x <= y on costs that are numbers or float('inf')
Le(x, y) ==
    IF y.kind = "inf" THEN TRUE
    ELSE IF x.kind = "inf" THEN FALSE
    ELSE x.v <= y.v

IsCost(c) == c.kind \in {"num", "inf"}

Running == pc \in {"loop", "returned"}

JustEntered == pc = "loop" /\ temperature = initial_temperature * TempScale

(***************************************************************************)
(* Properties.                                                             *)
(***************************************************************************)
\* C1: sentinel dominance.  Whenever is_feasible rejects the solution passed
\* and calculate_cost returns a cost for it, every solution that is_feasible
\* accepts costs strictly less.
C1_SentinelDominance ==
    (feasible_ret = "False" /\ IsCost(cost_ret)) =>
        \A S \in Arrangements(inst) :
            is_feasible(S, inst) = "True" => Lt(calculate_cost(inst, S), cost_ret)

\* C2: coverage check.  A solution whose non-depot visits are not exactly the
\* customers, once each, is not reported feasible by is_feasible.
C2_CoverageRejected ==
    (feasible_ret # "none" /\ ~ExactCover(routes, inst)) => feasible_ret # "True"

\* C3: initial state.  When the loop is entered, current_routes and
\* best_routes are the argument initial_routes and best_cost is its cost.
C3_StartsFromSeed ==
    JustEntered =>
        /\ current_routes = initial_routes
        /\ best_routes = initial_routes
        /\ best_cost = calculate_cost(inst, initial_routes)

\* C4: degenerate move.  With two routes, both are selected; when one of them
\* is only [0, n + 1], generate_new_solution returns an unchanged copy and
\* raises nothing.
C4_DegenerateNoOp ==
    (/\ move_ret # NoMove
     /\ Len(routes) = 2
     /\ \E k \in DOMAIN routes : routes[k] = <<0, ReturnDepot(inst)>>)
        => move_ret = MoveOk(routes)

\* C5: cost monotonicity of best.  No iteration of the loop increases
\* best_cost, whatever the candidate and the acceptance draw.
C5_BestCostNonIncreasing == [][pc = "loop" => Le(best_cost', best_cost)]_vars

\* C5 witness: best_cost has dropped below the cost of the starting solution
\* and a worse candidate has since been accepted as current.
C5_Witness ==
    /\ pc = "loop"
    /\ Lt(best_cost, calculate_cost(inst, feasible_routes))
    /\ Lt(best_cost, calculate_cost(inst, current_routes))

\* C6: coverage invariant of the search.  If the seed contains every customer
\* exactly once, so do current_routes and best_routes in every state of the
\* run.
C6_CoverageInvariant ==
    (Running /\ CoversCustomers(initial_routes, inst)) =>
        /\ CoversCustomers(current_routes, inst)
        /\ CoversCustomers(best_routes, inst)

\* C7: endpoint invariant of the search.  If every route of the seed starts at
\* 0 and ends at n + 1, so does every route of current_routes and best_routes
\* in every state of the run.
C7_EndpointInvariant ==
    (Running /\ EndpointsOk(initial_routes, inst)) =>
        /\ EndpointsOk(current_routes, inst)
        /\ EndpointsOk(best_routes, inst)

\* C8: infeasible candidates are never accepted.  While best_cost is finite no
\* iteration makes a candidate of cost float('inf') current; hence from a seed
\* of finite cost current_routes has finite cost in every state of the run.
C8_CurrentFinite ==
    (Running /\ calculate_cost(inst, initial_routes).kind = "num") =>
        calculate_cost(inst, current_routes).kind = "num"

\* The step part of C8 alone: with best_cost finite, an iteration leaves
\* current_routes with a finite cost if it had one.
C8_StepKeepsFinite ==
    [][(/\ pc = "loop"
        /\ best_cost.kind = "num"
        /\ calculate_cost(inst, current_routes).kind = "num")
          => calculate_cost(inst, current_routes').kind = "num"]_vars

\* C9: endpoint check.  is_feasible returns False for every solution with a
\* non-empty route that does not start at 0 or does not end at n + 1.
C9_EndpointRejected ==
    (feasible_ret # "none" /\ BadEndpoint(routes, inst)) => feasible_ret = "False"

\* C10: cost of a feasible solution.  When no route violates the capacity or
\* a time window, calculate_cost returns exactly the sum of cij over the
\* consecutive pairs of all routes, and the same for the routes in the
\* opposite order.
C10_CostIsArcSum ==
    (/\ cost_ret # NoCost
     /\ ArcsDefined(routes, inst)
     /\ NoViolation(routes, inst))
        => /\ cost_ret = Num(SumArcCost(routes, Len(routes), inst))
           /\ calculate_cost(inst, Reverse(routes)) = cost_ret

\* C10 witness: the sanity-check cell, calculate_cost(exact_routes) = 128 on
\* the notebook's instance, a solution with no violation.
C10_Witness ==
    /\ inst = parameters
    /\ routes = exact_routes
    /\ NoViolation(routes, inst)
    /\ cost_ret = Num(44 + 13 + 28 + 18 + 25)

\* demand of the customers at positions 1 .. x of a route
RECURSIVE DemandUpTo(_, _, _)
DemandUpTo(route, x, p) ==
    IF x = 0 THEN 0
    ELSE DemandUpTo(route, x - 1, p) + (IF route[x] \in p.C THEN p.di[route[x]] ELSE 0)

\* some prefix of some single route carries more than the capacity
Overloaded(rs, p) ==
    \E kx \in Positions(rs) : DemandUpTo(rs[kx[1]], kx[2], p) > p.q

\* demand served by all the routes together
RECURSIVE TotalDemand(_, _, _)
TotalDemand(rs, k, p) ==
    IF k = 0 THEN 0
    ELSE TotalDemand(rs, k - 1, p) + DemandUpTo(rs[k], Len(rs[k]), p)

\* no route is empty and every consecutive pair is an arc: every lookup that
\* is_feasible makes while walking the routes is defined
Walkable(rs, p) == ArcsDefined(rs, p) /\ \A k \in DOMAIN rs : Len(rs[k]) > 0

\* no arrival is after the end of the window of the node arrived at
WindowsKept(rs, p) ==
    \A kx \in Positions(rs) :
        kx[2] > 1 => ArrivalAt(rs[kx[1]], kx[2], p) <= p.b[rs[kx[1]][kx[2]]]

Waits(rs, p) ==
    \E kx \in Positions(rs) :
        /\ kx[2] > 1
        /\ ArrivalAt(rs[kx[1]], kx[2] - 1, p) + p.tij[<<rs[kx[1]][kx[2] - 1], rs[kx[1]][kx[2]]>>]
               < p.a[rs[kx[1]][kx[2]]]

\* some node is reached at the instant its window closes
ArrivesAtClose(rs, p) ==
    \E kx \in Positions(rs) :
        kx[2] > 1 /\ ArrivalAt(rs[kx[1]], kx[2], p) = p.b[rs[kx[1]][kx[2]]]

\* C12: time windows are propagated along each route.  With the arrival at
\* the first node 0 and the arrival at j equal to max(arrival at i + time[i][j],
\* windowStart[j]), a solution that covers the customers, keeps the endpoints
\* and the capacity is rejected by is_feasible exactly when some arrival is
\* strictly greater than windowEnd[j]; an arrival equal to windowEnd[j] and an
\* early arrival (which waits) do not reject.
C12_WindowPropagation ==
    (/\ feasible_ret # "none"
     /\ ExactCover(routes, inst)
     /\ EndpointsOk(routes, inst)
     /\ ArcsDefined(routes, inst)
     /\ ~Overloaded(routes, inst)) =>
        /\ feasible_ret \in {"True", "False"}
        /\ feasible_ret = "False" <=> ~WindowsKept(routes, inst)

\* a solution accepted with a wait at one node and an arrival at the close of
\* the window of another
C12_Witness ==
    /\ feasible_ret = "True"
    /\ ExactCover(routes, inst)
    /\ EndpointsOk(routes, inst)
    /\ Waits(routes, inst)
    /\ ArrivesAtClose(routes, inst)

\* a solution rejected for a late arrival alone
C12_WitnessLate ==
    /\ feasible_ret = "False"
    /\ ExactCover(routes, inst)
    /\ EndpointsOk(routes, inst)
    /\ ArcsDefined(routes, inst)
    /\ ~Overloaded(routes, inst)
    /\ ~WindowsKept(routes, inst)

\* C13: every run of simulated_annealing terminates.  Each iteration, whether
\* its candidate is accepted or rejected, multiplies the temperature by the
\* cooling rate exactly once, so the temperature strictly decreases; the loop
\* is left at the first iteration boundary where the temperature is <= 1, by
\* returning best_routes and best_cost unchanged, and in no other way.
C13_TerminatesByCooling ==
    /\ <>(pc = "returned")
    /\ [][(pc = "loop" /\ temperature > 1 * TempScale) =>
            /\ pc' = "loop"
            /\ temperature' = cool(temperature)
            /\ temperature' < temperature]_vars
    /\ [][(pc = "loop" /\ temperature <= 1 * TempScale) =>
            /\ pc' = "returned"
            /\ best_routes' = best_routes
            /\ best_cost' = best_cost]_vars
    /\ [](pc \in {"call", "loop", "returned"})

\* the call has returned, after the temperature fell from 1000 to 1 or below
C13_Witness ==
    /\ pc = "returned"
    /\ temperature <= 1 * TempScale
    /\ cool(temperature) < temperature
    /\ best_cost.kind = "num"

\* C15: Scenario C.  On the reference instance, from the seed
\* [[0, 3, 4], [0, 2, 1, 4]] of cost 149, every run that returns returns a
\* best_cost that is at most 149 and at least 128, and a run returning the
\* optimum 128 with [[0, 1, 4], [0, 2, 3, 4]] exists.
C15_ScenarioC ==
    (/\ pc = "returned"
     /\ inst = parameters
     /\ initial_routes = feasible_routes) =>
        /\ best_cost.kind = "num"
        /\ best_cost.v <= 149
        /\ best_cost.v >= 128
        /\ best_cost = calculate_cost(inst, best_routes)

\* the run from the seed of cost 149 has returned the optimum
C15_Witness ==
    /\ pc = "returned"
    /\ inst = parameters
    /\ initial_routes = feasible_routes
    /\ calculate_cost(inst, initial_routes) = Num(149)
    /\ best_routes = exact_routes
    /\ best_cost = Num(128)

\* the run from the seed of cost 149 has returned the seed itself
C15_WitnessSeed ==
    /\ pc = "returned"
    /\ inst = parameters
    /\ initial_routes = feasible_routes
    /\ best_routes = feasible_routes
    /\ best_cost = Num(149)

\* C16: the move is pure.  After generate_new_solution has returned or
\* raised, every list of the solution it was given is the same object with
\* the same nodes in the same order, and the solution it returned is made
\* of lists that are none of the lists of its input (neither its list of
\* routes nor any route), so that a later write to one cannot be seen through
\* the other; what it returned is the input with the two drawn positions
\* exchanged.
C16_MovePurity ==
    move_ret # NoMove =>
        /\ names.routes = RootOf(routes)
        /\ \A id \in DOMAIN Objects(routes) :
               id \in DOMAIN heap /\ heap[id] = Objects(routes)[id]
        /\ Deref(heap, names.routes) = routes
        /\ move_ret.exc = "none" =>
               /\ names.new_routes \in DOMAIN heap
               /\ Reach(heap, names.new_routes) \cap Reach(heap, names.routes) = {}
               /\ Deref(heap, names.new_routes) = move_ret.routes
        /\ move_ret.exc # "none" => names.new_routes = 0

\* a call that exchanged two different nodes and left its input as it was
C16_Witness ==
    /\ move_ret # NoMove
    /\ move_ret.exc = "none"
    /\ move_ret.routes # routes
    /\ Deref(heap, names.new_routes) # Deref(heap, names.routes)
    /\ Deref(heap, names.routes) = routes

\* what a call of simulated_annealing holds: the solutions its names stand
\* for, its best_cost and its temperature
Held(h, f) ==
    [current |-> Deref(h, f.current_routes), best |-> Deref(h, f.best_routes),
     best_cost |-> f.best_cost, temperature |-> f.temperature]

\* C14: determinism.  Two runs of simulated_annealing on the same instance,
\* with the same seed solution and the same stream of draws (for each
\* iteration the vehicle pair and the two positions of the move, then the
\* acceptance draw), hold identical (current, best, best_cost, temperature)
\* after every iteration and return identical (best, best_cost); neither run
\* raises.
C14_Determinism ==
    pc = "twin" =>
        /\ \A r \in Runs : run[r].pc \in {"call", "loop", "returned"}
        /\ (stream = <<>> /\ \A r \in Runs : run[r].pc \in {"loop", "returned"}) =>
               Held(heap, run[1]) = Held(heap, run[2])

\* both runs have returned the optimum, each holding it in lists of its own
C14_Witness ==
    /\ pc = "twin"
    /\ \A r \in Runs : run[r].pc = "returned"
    /\ Deref(heap, run[1].best_routes) = exact_routes
    /\ Deref(heap, run[2].best_routes) = exact_routes
    /\ run[1].best_routes # run[2].best_routes
    /\ run[1].best_cost = Num(128)

\* No list that a name still refers to is ever written: the lists that
\* current_routes, best_routes and feasible_routes name keep their items
\* through every step of both runs.
C16_NamedListsNeverWritten ==
    [][pc = "twin" => \A id \in DOMAIN heap \cap DOMAIN heap' : heap'[id] = heap[id]]_vars

\* C17: seed validation.  A seed that does not contain every customer exactly
\* once, or that holds a node that is not a node of the instance, is rejected
\* before any iteration: the call with such a seed never reaches the loop
\* and never returns.
C17_SeedValidated ==
    (pc \in {"loop", "raised", "returned"} /\ ~ExactCover(initial_routes, inst)) =>
        /\ pc = "raised"
        /\ temperature = initial_temperature * TempScale

\* C18: instance validation.  generate_vrptw_parameters never returns an
\* instance whose capacity is not positive or whose fleet is empty: a call
\* with capacity <= 0 or with num_vehicles = 0 fails.
C18_InstanceValidated ==
    gen_ret.kind = "instance" =>
        /\ gen_ret.value.q > 0
        /\ gen_ret.value.V # {}
        /\ gen_args.capacity > 0
        /\ gen_args.num_vehicles > 0

\* C19: generated instances are well formed.  Every instance that
\* generate_vrptw_parameters returns for a window range (lo, hi) with
\* 0 <= lo < hi has windowStart[i] < windowEnd[i] for every node, the window
\* [0, hi] for both depots, a cost and a time for every ordered pair of
\* distinct nodes and none for a pair (i, i), and a demand for exactly the
\* customers 1 .. n.
C19_WellFormedInstance ==
    (/\ gen_ret.kind = "instance"
     /\ 0 <= gen_args.time_window_range[1]
     /\ gen_args.time_window_range[1] < gen_args.time_window_range[2]) =>
        LET p == gen_ret.value
            n == gen_args.num_customers
            hi == gen_args.time_window_range[2]
            pairs == {k \in (0 .. n + 1) \X (0 .. n + 1) : k[1] # k[2]}
        IN  /\ p.N = 0 .. n + 1
            /\ p.C = 1 .. n
            /\ DOMAIN p.a = p.N
            /\ DOMAIN p.b = p.N
            /\ \A i \in p.N : p.a[i] < p.b[i]
            /\ p.a[0] = 0 /\ p.b[0] = hi
            /\ p.a[n + 1] = 0 /\ p.b[n + 1] = hi
            /\ DOMAIN p.cij = pairs
            /\ DOMAIN p.tij = pairs
            /\ DOMAIN p.di = 1 .. n

\* an instance returned for a range that starts above 0, with a customer
\* whose window starts there and ends before hi
C19_Witness ==
    /\ gen_ret.kind = "instance"
    /\ gen_args.time_window_range = <<1, 3>>
    /\ gen_args.num_customers = 2
    /\ gen_ret.value.a[1] = 1
    /\ gen_ret.value.b[1] = 2
    /\ gen_ret.value.a[0] = 0
    /\ gen_ret.value.b[3] = 3

\* a call that raised because a window start was drawn at hi
C19_WitnessRaised == gen_ret.kind = "ValueError"

\* at least two routes, each with at least one interior node
MoveApplies(rs) == Len(rs) >= 2 /\ \A k \in DOMAIN rs : Len(rs[k]) >= 3

Interior(rs, kx) == kx[2] >= 2 /\ kx[2] <= Len(rs[kx[1]]) - 1

\* every route keeps its length, its first and its last node
SameShape(rs, ns) ==
    /\ Len(ns) = Len(rs)
    /\ \A k \in DOMAIN rs :
           /\ Len(ns[k]) = Len(rs[k])
           /\ Len(rs[k]) > 0 => ns[k][1] = rs[k][1] /\ ns[k][Len(rs[k])] = rs[k][Len(rs[k])]

\* the positions at which two solutions of the same shape differ
DiffPositions(rs, ns) == {kx \in Positions(rs) : ns[kx[1]][kx[2]] # rs[kx[1]][kx[2]]}

NodesOf(rs) == {rs[kx[1]][kx[2]] : kx \in Positions(rs)}

\* the same nodes, each as many times
SameNodes(rs, ns) ==
    \A c \in NodesOf(rs) \cup NodesOf(ns) : Occurrences(ns, c) = Occurrences(rs, c)

\* ns is rs with the nodes at positions p1 and p2 exchanged
Exchanged(rs, ns, p1, p2) ==
    /\ DiffPositions(rs, ns) \subseteq {p1, p2}
    /\ ns[p1[1]][p1[2]] = rs[p2[1]][p2[2]]
    /\ ns[p2[1]][p2[2]] = rs[p1[1]][p1[2]]

\* C20: shape of a move.  When the solution has at least two routes and each
\* has at least one interior node, generate_new_solution returns a solution
\* that differs from its input in exactly two positions, one interior position
\* in each of two distinct routes, whose two nodes are exchanged; every route
\* keeps its length, its first and its last node, and the multiset of nodes is
\* unchanged.
C20_MoveShape ==
    (move_ret # NoMove /\ MoveApplies(routes)) =>
        /\ move_ret.exc = "none"
        /\ SameShape(routes, move_ret.routes)
        /\ SameNodes(routes, move_ret.routes)
        /\ \E p1, p2 \in Positions(routes) :
               /\ p1[1] # p2[1]
               /\ Interior(routes, p1) /\ Interior(routes, p2)
               /\ Exchanged(routes, move_ret.routes, p1, p2)
               /\ DiffPositions(routes, move_ret.routes) = {p1, p2}

\* C20 amended: under the same condition the result is the input with the
\* nodes at one interior position of each of two distinct routes exchanged:
\* it differs from the input in exactly those two positions when the two
\* nodes differ and in no position when they are the same node; every route
\* keeps its length, its first and its last node, and the multiset of nodes
\* is unchanged.
C20_MoveShapeAmended ==
    (move_ret # NoMove /\ MoveApplies(routes)) =>
        /\ move_ret.exc = "none"
        /\ SameShape(routes, move_ret.routes)
        /\ SameNodes(routes, move_ret.routes)
        /\ \E p1, p2 \in Positions(routes) :
               /\ p1[1] # p2[1]
               /\ Interior(routes, p1) /\ Interior(routes, p2)
               /\ Exchanged(routes, move_ret.routes, p1, p2)
               /\ IF routes[p1[1]][p1[2]] # routes[p2[1]][p2[2]]
                  THEN DiffPositions(routes, move_ret.routes) = {p1, p2}
                  ELSE DiffPositions(routes, move_ret.routes) = {}

\* a move that exchanged two different customers
C20_Witness ==
    /\ move_ret # NoMove
    /\ MoveApplies(routes)
    /\ move_ret.exc = "none"
    /\ Cardinality(DiffPositions(routes, move_ret.routes)) = 2

\* a move that exchanged a node with itself
C20_WitnessSameNode ==
    /\ move_ret # NoMove
    /\ MoveApplies(routes)
    /\ move_ret.exc = "none"
    /\ move_ret.routes = routes

\* at some position the arrival is after the window end and the load is over
\* the capacity: the two evaluators meet different tests first
BothBroken(rs, p) ==
    \E kx \in Positions(rs) :
        /\ kx[2] > 1
        /\ ArrivalAt(rs[kx[1]], kx[2], p) > p.b[rs[kx[1]][kx[2]]]
        /\ LoadAt(rs[kx[1]], kx[2], p) > p.q

\* C21: the inline check of calculate_cost agrees with is_feasible.  For
\* every solution whose routes all start at 0 and end at n + 1 and together
\* hold every customer exactly once, calculate_cost returns float('inf')
\* exactly when is_feasible returns False, and a number exactly when it
\* returns True; a capacity or window violation at any position of any route
\* makes the cost of the whole solution float('inf').
C21_InlineCheckAgrees ==
    (/\ feasible_ret # "none"
     /\ cost_ret # NoCost
     /\ EndpointsOk(routes, inst)
     /\ ExactCover(routes, inst)) =>
        /\ cost_ret = Inf <=> feasible_ret = "False"
        /\ cost_ret.kind = "num" <=> feasible_ret = "True"
        /\ (ArcsDefined(routes, inst) /\ ~NoViolation(routes, inst)) => cost_ret = Inf

\* both evaluators reject a solution in which one node is reached late and
\* overloaded, in the second route
C21_Witness ==
    /\ feasible_ret = "False"
    /\ cost_ret = Inf
    /\ EndpointsOk(routes, inst)
    /\ ExactCover(routes, inst)
    /\ BothBroken(routes, inst)
    /\ ~BothBroken(<<routes[1]>>, inst)

\* both evaluators accept
C21_WitnessAccepted ==
    /\ feasible_ret = "True"
    /\ cost_ret.kind = "num"
    /\ EndpointsOk(routes, inst)
    /\ ExactCover(routes, inst)

\* C22: best is updated only on strict improvement and stays consistent with
\* its cost.  In every state of the run best_cost is calculate_cost of
\* best_routes.  An iteration changes best_routes or best_cost only when its
\* candidate, which then is the new current_routes, costs strictly less than
\* best_cost, and then best_routes becomes that candidate and best_cost its
\* cost; an iteration whose accepted candidate costs as much as best_cost or
\* more leaves both as they were.
C22_BestOnlyOnImprovement ==
    /\ [](Running => best_cost = calculate_cost(inst, best_routes))
    /\ [][pc = "loop" =>
            /\ (best_routes' # best_routes \/ best_cost' # best_cost) =>
                   /\ Lt(best_cost', best_cost)
                   /\ best_routes' = current_routes'
                   /\ best_cost' = calculate_cost(inst, current_routes')
            /\ (/\ current_routes' # current_routes
                /\ ~Lt(calculate_cost(inst, current_routes'), best_cost)) =>
                   /\ best_routes' = best_routes
                   /\ best_cost' = best_cost
            /\ Lt(calculate_cost(inst, current_routes'), best_cost) =>
                   /\ best_routes' = current_routes'
                   /\ best_cost' = calculate_cost(inst, current_routes')]_vars

\* best has been replaced by an improving candidate, and a candidate that
\* costs more has since become current without changing it
C22_Witness ==
    /\ pc = "loop"
    /\ best_routes # feasible_routes
    /\ best_cost = calculate_cost(inst, best_routes)
    /\ current_routes # best_routes
    /\ calculate_cost(inst, current_routes).kind = "num"
    /\ best_cost.v < calculate_cost(inst, current_routes).v

=============================================================================
